---- MODULE Spec2Model ----
(***************************************************************************)
(* A model of the hanabi.rs game core (src/game.rs): the card piles, the   *)
(* construction of a game, the per-player view, and the turn engine        *)
(* process_choice with its hint / life / deckless-countdown accounting.    *)
(***************************************************************************)
EXTENDS Integers, Sequences, FiniteSets, TLC

(***************************************************************************)
(* Bounds of the model.                                                    *)
(***************************************************************************)
\* num_players ranges over 1..MaxPlayers
MaxPlayers == 3
\* only configurations that leave at most MaxDeckLeft cards in the deck
MaxDeckLeft == 2
\* num_hints ranges over 1..MaxHints, num_lives over 1..MaxLives
MaxHints == 1
MaxLives == 1
\* the shuffle is drawn from the permutations numbered 0..MaxSeed
MaxSeed == 1
\* Discard/Play take the first card of the hand or the card at MaxIndex
MaxIndex == 1
\* the unguarded driver stops calling process_choice after MaxTurn turns
MaxTurn == 3

(***************************************************************************)
(* Type definitions (game.rs 14-21).                                       *)
(***************************************************************************)
COLORS == <<"blue", "red", "yellow", "white", "green">>

VALUE_COUNTS == << <<1, 3>>, <<2, 2>>, <<3, 2>>, <<4, 2>>, <<5, 1>> >>

FINAL_VALUE == 5

Card(color, value) == [color |-> color, value |-> value]

\* info::CardInfo::new(): a fresh "nothing known yet" knowledge slot
CardInfo_new == "unknown"

(***************************************************************************)
(* Pile<T>: a Vec<T>; position 1 of the sequence is element 0 of the Vec,  *)
(* the top of the pile is the last element.                                *)
(***************************************************************************)
Pile_new == << >>

\* draw that hands out the top card and leaves it on the pile
draw_keeps_top(pile) ==
    IF Len(pile) = 0
    THEN [some |-> FALSE, pile |-> pile]
    ELSE [some |-> TRUE, item |-> pile[Len(pile)], pile |-> pile]

\* Vec::pop: None on an empty pile
draw(pile) ==
    IF Len(pile) = 0
    THEN [some |-> FALSE, pile |-> pile]
    ELSE [some |-> TRUE, item |-> pile[Len(pile)],
          pile |-> SubSeq(pile, 1, Len(pile) - 1)]

place(pile, item) == Append(pile, item)

\* take as Vec::swap_remove: the last element fills the gap
take_swap(pile, index) ==
    [item |-> pile[index + 1],
     pile |-> [j \in 1..(Len(pile) - 1) |->
                  IF j = index + 1 THEN pile[Len(pile)] ELSE pile[j]]]

\* Vec::remove(index), index 0-based and < len: later elements shift down
take(pile, index) ==
    [item |-> pile[index + 1],
     pile |-> SubSeq(pile, 1, index) \o SubSeq(pile, index + 2, Len(pile))]

top(pile) == pile[Len(pile)]

size(pile) == Len(pile)

\* rand's shuffle returns some permutation of the items; the model draws it
\* from a family numbered by seed: a stride-5 interleave whose blocks of ten
\* are offset by 12 each, cut at 2 + seed.
shuffle(items, seed) ==
    [i \in 1..Len(items) |->
        items[((5 * (i - 1) + 12 * ((i - 1) \div 10) + 2 + seed)
                  % Len(items)) + 1]]

(***************************************************************************)
(* u32 arithmetic.  A u32 is represented by the integer with the same 32   *)
(* bits in two's complement: v itself when v < 2^31, and v - 2^32 when     *)
(* v >= 2^31, so that 2^32 - 1 is -1.  A subtraction below zero panics     *)
(* when the build has overflow checks (debug) and wraps when it has not    *)
(* (release).                                                              *)
(***************************************************************************)
sub_u32(a, b, checks) ==
    IF a >= 0 /\ a < b /\ checks
    THEN [ok |-> FALSE, val |-> a]
    ELSE [ok |-> TRUE, val |-> a - b]

\* the u32 is one that only a wrap-around produces (2^31 or more)
wrapped(v) == v < 0

(***************************************************************************)
(* GameState::make_deck and GameState::new.                                *)
(***************************************************************************)
RECURSIVE place_values(_, _)
\* for &(value, count) in VALUE_COUNTS.iter(), from entry k on:
\*     for _ in 0..count { deck.place(Card {color, value}) }
place_values(color, k) ==
    IF k > Len(VALUE_COUNTS) THEN << >>
    ELSE [j \in 1..VALUE_COUNTS[k][2] |-> Card(color, VALUE_COUNTS[k][1])]
            \o place_values(color, k + 1)

RECURSIVE place_colors(_)
\* for color in COLORS.iter(), from entry k on
place_colors(k) ==
    IF k > Len(COLORS) THEN << >>
    ELSE place_values(COLORS[k], 1) \o place_colors(k + 1)

make_deck(seed) == shuffle(Pile_new \o place_colors(1), seed)

\* (0..count).map(|_| deck.draw().unwrap()): count pops off the top of the
\* deck, collected in the order they are drawn; the deck is big enough
draw_hand(deck, count) ==
    [deck |-> SubSeq(deck, 1, Len(deck) - count),
     raw_hand |-> [j \in 1..count |-> deck[Len(deck) - j + 1]]]

\* for i in 0..opts.num_players { ... player_states.insert(i, state) }:
\* player i draws from the deck the i players before it have drawn from
deal(deck, opts) ==
    [deck |-> SubSeq(deck, 1, Len(deck) - opts.num_players * opts.hand_size),
     player_states |->
        [i \in 0..(opts.num_players - 1) |->
            [hand |-> draw_hand(SubSeq(deck, 1, Len(deck) - i * opts.hand_size),
                                opts.hand_size).raw_hand,
             info |-> [j \in 1..opts.hand_size |-> CardInfo_new]]]]

Colors == {COLORS[k] : k \in 1..Len(COLORS)}

\* new that starts the deckless countdown at num_players
new_short_countdown(opts, seed) ==
    LET dealt     == deal(make_deck(seed), opts)
        fireworks == [color \in Colors |-> place(Pile_new, Card(color, 0))]
    IN  [player_states |-> dealt.player_states,
         board |-> [deck |-> dealt.deck,
                    fireworks |-> fireworks,
                    discard |-> Pile_new,
                    num_players |-> opts.num_players,
                    player |-> 0,
                    turn |-> 1,
                    hints_total |-> opts.num_hints,
                    hints_remaining |-> opts.num_hints,
                    lives_total |-> opts.num_lives,
                    lives_remaining |-> opts.num_lives,
                    deckless_turns_remaining |-> opts.num_players]]

new(opts, seed) ==
    LET dealt     == deal(make_deck(seed), opts)
        fireworks == [color \in Colors |-> place(Pile_new, Card(color, 0))]
    IN  [player_states |-> dealt.player_states,
         board |-> [deck |-> dealt.deck,
                    fireworks |-> fireworks,
                    discard |-> Pile_new,
                    num_players |-> opts.num_players,
                    player |-> 0,
                    turn |-> 1,
                    hints_total |-> opts.num_hints,
                    hints_remaining |-> opts.num_hints,
                    lives_total |-> opts.num_lives,
                    lives_remaining |-> opts.num_lives,
                    deckless_turns_remaining |-> opts.num_players + 1]]

(***************************************************************************)
(* Queries.                                                                *)
(***************************************************************************)
get_players(gs) == 0..(gs.board.num_players - 1)

is_over(gs) ==
    \/ gs.board.lives_remaining = 0
    \/ gs.board.deckless_turns_remaining = 0

RECURSIVE score_counts_sentinel(_, _)
\* score_from without the subtraction that accounts for the sentinel
score_counts_sentinel(gs, k) ==
    IF k > Len(COLORS) THEN 0
    ELSE size(gs.board.fireworks[COLORS[k]]) + score_counts_sentinel(gs, k + 1)

RECURSIVE score_from(_, _)
\* for (_, firework) in &self.board.fireworks { score += firework.size() - 1 }
score_from(gs, k) ==
    IF k > Len(COLORS) THEN 0
    ELSE (size(gs.board.fireworks[COLORS[k]]) - 1) + score_from(gs, k + 1)

score(gs) == score_from(gs, 1)

\* the orders in which a HashMap with keys 0..n-1 may be iterated
IterOrders ==
    [n \in 1..MaxPlayers |->
        {[i \in 1..n |-> o[i]] :
            o \in {f \in [1..n -> 0..(n - 1)] :
                      \A a, b \in 1..n : f[a] = f[b] => a = b}}]

\* HashMap::insert: a new key is added, an existing key gets the new value
insert(map, key, value) ==
    [k \in (DOMAIN map) \cup {key} |-> IF k = key THEN value ELSE map[k]]

\* a borrow &'a PlayerState of the game's player_states[player]
PlayerStateRef(player) == [ref |-> player]

RECURSIVE view_others_unfiltered(_, _, _)
\* view_others without the test that skips the viewing player
view_others_unfiltered(player, order, k) ==
    IF k = 0 THEN << >>
    ELSE insert(view_others_unfiltered(player, order, k - 1), player,
                PlayerStateRef(order[k]))

RECURSIVE view_others(_, _, _)
\* the loop of get_view over player_states, taken in the given order up to
\* its k-th entry
view_others(player, order, k) ==
    IF k = 0 THEN << >>
    ELSE LET other_player_states == view_others(player, order, k - 1)
             other_player        == order[k]
             state               == PlayerStateRef(other_player)
         IN  IF player # other_player
             THEN insert(other_player_states, player, state)
             ELSE other_player_states

\* the maps that loop may build, for each number of players and each viewer
OtherPlayerStates ==
    [n \in 1..MaxPlayers |->
        [player \in 0..(n - 1) |->
            {view_others(player, order, n) : order \in IterOrders[n]}]]

\* every GameStateView get_view(player) may return, one per iteration order;
\* info and board are borrows of player_states[player].info and of the board
get_view(gs, player) ==
    {[player |-> player,
      info |-> [ref |-> player],
      other_player_states |-> others,
      board |-> "board"] :
        others \in OtherPlayerStates[gs.board.num_players][player]}

\* what a view lets its holder read in the game state it borrows from
deref(gs, view) ==
    [player |-> view.player,
     info |-> gs.player_states[view.info.ref].info,
     other_player_states |->
         [k \in DOMAIN view.other_player_states |->
             gs.player_states[view.other_player_states[k].ref]],
     board |-> gs.board]

(***************************************************************************)
(* The turn engine.  Each operator returns the game state it leaves        *)
(* behind, the card it took from the hand (NO_CARD if none) and the panic  *)
(* it ended in (NO_PANIC if none); a panic leaves the mutations made       *)
(* before it in place.                                                     *)
(***************************************************************************)
NO_PANIC == "none"

PANIC_HINT == "assertion failed: self.board.hints_remaining > 0"

PANIC_INDEX == "Vec::remove: index out of bounds"

PANIC_LIVES == "lives_remaining: attempt to subtract with overflow"

PANIC_DECKLESS == "deckless_turns_remaining: attempt to subtract with overflow"

PANIC_TURN == "assertion failed: (turn - 1) % num_players == player"

NO_CARD == [color |-> "none", value |-> 0]

\* replace_card that leaves the info pile alone when no card is drawn
replace_card_keeps_info(gs, taken, infos, drawn) ==
    [gs |-> [player_states |->
                 [gs.player_states EXCEPT ![gs.board.player] =
                     IF drawn.some
                     THEN [hand |-> place(taken.pile, drawn.item),
                           info |-> place(infos.pile, CardInfo_new)]
                     ELSE [hand |-> taken.pile, info |-> @.info]],
             board |-> [gs.board EXCEPT !.deck = drawn.pile]],
     card |-> taken.item,
     panic |-> NO_PANIC]

\* replace_card that stores the piles as the state of the next player
replace_card_serves_next(gs, taken, infos, drawn) ==
    [gs |-> [player_states |->
                 [gs.player_states EXCEPT
                     ![(gs.board.player + 1) % gs.board.num_players] =
                     IF drawn.some
                     THEN [hand |-> place(taken.pile, drawn.item),
                           info |-> place(infos.pile, CardInfo_new)]
                     ELSE [hand |-> taken.pile, info |-> infos.pile]],
             board |-> [gs.board EXCEPT !.deck = drawn.pile]],
     card |-> taken.item,
     panic |-> NO_PANIC]

\* take_from_hand once hand.take(index), info.take(index) and deck.draw() are
\* evaluated: the piles left are stored and the drawn card, if any, is placed
\* with a fresh info
replace_card(gs, taken, infos, drawn) ==
    [gs |-> [player_states |->
                 [gs.player_states EXCEPT ![gs.board.player] =
                     IF drawn.some
                     THEN [hand |-> place(taken.pile, drawn.item),
                           info |-> place(infos.pile, CardInfo_new)]
                     ELSE [hand |-> taken.pile, info |-> infos.pile]],
             board |-> [gs.board EXCEPT !.deck = drawn.pile]],
     card |-> taken.item,
     panic |-> NO_PANIC]

\* takes a card from the player's hand, and replaces it if possible;
\* Vec::remove panics on an index that is not in the hand
take_from_hand(gs, index) ==
    IF index >= size(gs.player_states[gs.board.player].hand)
    THEN [gs |-> gs, card |-> NO_CARD, panic |-> PANIC_INDEX]
    ELSE replace_card(gs,
                      take(gs.player_states[gs.board.player].hand, index),
                      take(gs.player_states[gs.board.player].info, index),
                      draw(gs.board.deck))

\* try_add_hint without the cap at hints_total
try_add_hint_uncapped(gs) == [gs EXCEPT !.board.hints_remaining = @ + 1]

try_add_hint(gs) ==
    IF gs.board.hints_remaining < gs.board.hints_total
    THEN [gs EXCEPT !.board.hints_remaining = @ + 1]
    ELSE gs

\* choice_hint that spends no token
choice_hint_free(gs) ==
    IF ~(gs.board.hints_remaining > 0)
    THEN [gs |-> gs, card |-> NO_CARD, panic |-> PANIC_HINT]
    ELSE [gs |-> gs, card |-> NO_CARD, panic |-> NO_PANIC]

\* choice_hint without the assert!: the token count goes below zero
choice_hint_unchecked(gs) ==
    [gs |-> [gs EXCEPT !.board.hints_remaining = @ - 1],
     card |-> NO_CARD,
     panic |-> NO_PANIC]

\* the match arm of TurnChoice::Hint
choice_hint(gs) ==
    IF ~(gs.board.hints_remaining > 0)
    THEN [gs |-> gs, card |-> NO_CARD, panic |-> PANIC_HINT]
    ELSE [gs |-> [gs EXCEPT !.board.hints_remaining = @ - 1],
          card |-> NO_CARD,
          panic |-> NO_PANIC]

\* discard_card that refunds no hint token
discard_card_keeps_hints(t) ==
    IF t.panic # NO_PANIC THEN t
    ELSE [gs |-> [t.gs EXCEPT !.board.discard = place(@, t.card)],
          card |-> t.card,
          panic |-> NO_PANIC]

\* the match arm of TurnChoice::Discard(index), after take_from_hand
discard_card(t) ==
    IF t.panic # NO_PANIC THEN t
    ELSE [gs |-> try_add_hint([t.gs EXCEPT !.board.discard = place(@, t.card)]),
          card |-> t.card,
          panic |-> NO_PANIC]

\* the match arm of TurnChoice::Discard(index)
choice_discard(gs, index) == discard_card(take_from_hand(gs, index))

\* firework_made that rewards every legal play
firework_made_always(card) == TRUE

\* firework_made = card.value == FINAL_VALUE
firework_made(card) == card.value = FINAL_VALUE

\* if firework_made { self.try_add_hint() }
reward(gs, made) == IF made THEN try_add_hint(gs) ELSE gs

\* the else branch of playable: the life is taken after the card is discarded
lose_life(gs, card, dec) ==
    [gs |-> [gs EXCEPT !.board.lives_remaining = dec.val],
     card |-> card,
     panic |-> IF dec.ok THEN NO_PANIC ELSE PANIC_LIVES]

\* play_card that takes every card for playable
play_card_unchecked(gs, card, checks) ==
    [gs |-> reward([gs EXCEPT !.board.fireworks[card.color] = place(@, card)],
                   firework_made(card)),
     card |-> card,
     panic |-> NO_PANIC]

\* the body of the Play arm for the card taken from the hand
play_card(gs, card, checks) ==
    IF card.value = top(gs.board.fireworks[card.color]).value + 1
    THEN [gs |-> reward([gs EXCEPT !.board.fireworks[card.color] =
                                       place(@, card)],
                        firework_made(card)),
          card |-> card,
          panic |-> NO_PANIC]
    ELSE lose_life([gs EXCEPT !.board.discard = place(@, card)], card,
                   sub_u32(gs.board.lives_remaining, 1, checks))

\* the match arm of TurnChoice::Play(index), given what take_from_hand returned
play_taken(t, checks) ==
    IF t.panic # NO_PANIC THEN t ELSE play_card(t.gs, t.card, checks)

\* the match arm of TurnChoice::Play(index)
choice_play(gs, index, checks) == play_taken(take_from_hand(gs, index), checks)

\* countdown that counts on every turn, whatever the deck holds
countdown_always(gs, checks) ==
    sub_u32(gs.board.deckless_turns_remaining, 1, checks)

\* if self.board.deck.size() == 0 { self.board.deckless_turns_remaining -= 1 }
countdown(gs, checks) ==
    IF size(gs.board.deck) = 0
    THEN sub_u32(gs.board.deckless_turns_remaining, 1, checks)
    ELSE [ok |-> TRUE, val |-> gs.board.deckless_turns_remaining]

\* advance that does not count the turn
advance_keeps_turn(gs, deckless) ==
    [gs EXCEPT !.board.deckless_turns_remaining = deckless,
               !.board.player = (@ + 1) % gs.board.num_players]

\* the countdown is stored, turn += 1 (turn stays far below 2^32 here) and
\* player = (player + 1) % num_players
advance(gs, deckless) ==
    [gs EXCEPT !.board.deckless_turns_remaining = deckless,
               !.board.turn = @ + 1,
               !.board.player = (@ + 1) % gs.board.num_players]

\* assert_eq!((turn - 1) % num_players, player)
assert_turn(gs, card) ==
    [gs |-> gs,
     card |-> card,
     panic |-> IF (gs.board.turn - 1) % gs.board.num_players = gs.board.player
               THEN NO_PANIC ELSE PANIC_TURN]

\* the part of process_choice after the match, given its countdown
end_of_turn(arm, dec) ==
    IF arm.panic # NO_PANIC THEN arm
    ELSE IF ~dec.ok
         THEN [gs |-> arm.gs, card |-> arm.card, panic |-> PANIC_DECKLESS]
         ELSE assert_turn(advance(arm.gs, dec.val), arm.card)

\* the match of process_choice
match_choice(gs, choice, checks) ==
    CASE choice.kind = "Hint" -> choice_hint(gs)
      [] choice.kind = "Discard" -> choice_discard(gs, choice.index)
      [] choice.kind = "Play" -> choice_play(gs, choice.index, checks)

\* the countdown runs on the state the match arm left
after_match(arm, checks) == end_of_turn(arm, countdown(arm.gs, checks))

process_choice(gs, choice, checks) ==
    after_match(match_choice(gs, choice, checks), checks)

(***************************************************************************)
(* The state machine: a driver that builds a game and feeds it choices.    *)
(***************************************************************************)
VARIABLES
    player_states,    \* GameState.player_states
    board,            \* GameState.board
    opts,             \* the GameOptions the game was built from
    panic,            \* the panic that stopped the program, NO_PANIC if none
    choice,           \* history: the argument of the last process_choice call
    taken,            \* history: the card that call took from the hand
    before,           \* history: what that call found (see Seen)
    deckless_calls    \* history: completed calls that began with an empty deck

vars == <<player_states, board, opts, panic, choice, taken,
          before, deckless_calls>>

GS == [player_states |-> player_states, board |-> board]

\* the figures of a game state that the history keeps
Seen(gs) ==
    [player |-> gs.board.player,
     deck_size |-> size(gs.board.deck),
     hand_size |-> size(gs.player_states[gs.board.player].hand),
     hints_remaining |-> gs.board.hints_remaining,
     lives_remaining |-> gs.board.lives_remaining,
     score |-> score(gs)]

DECK_SIZE == 50

\* the configurations new() is given: positive, and the deck can serve them
Configs ==
    UNION {
        {[num_players |-> n, hand_size |-> h, num_hints |-> k, num_lives |-> l] :
            h \in {x \in 1..DECK_SIZE :
                     /\ n * x <= DECK_SIZE
                     /\ DECK_SIZE - n * x <= MaxDeckLeft}} :
        n \in 1..MaxPlayers, k \in 1..MaxHints, l \in 1..MaxLives}

NO_CALL == [kind |-> "None"]

Init ==
    \E o \in Configs, seed \in 0..MaxSeed :
        LET gs == new(o, seed)
        IN  /\ player_states = gs.player_states
            /\ board = gs.board
            /\ opts = o
            /\ panic = NO_PANIC
            /\ choice = NO_CALL
            /\ taken = NO_CARD
            /\ before = Seen(gs)
            /\ deckless_calls = 0

\* the driver's record of a call c that returned r
Returned(r, c) ==
    /\ player_states' = r.gs.player_states
    /\ board' = r.gs.board
    /\ panic' = r.panic
    /\ taken' = r.card
    /\ deckless_calls' =
          IF r.panic = NO_PANIC /\ size(board.deck) = 0
          THEN deckless_calls + 1 ELSE deckless_calls
    /\ choice' = c
    /\ before' = Seen(GS)
    /\ UNCHANGED opts

\* one call of process_choice; a subtraction that goes below zero has either
\* of the outcomes a build can give it
Call(c) ==
    /\ panic = NO_PANIC
    /\ \E overflow_checks \in BOOLEAN :
          Returned(process_choice(GS, c, overflow_checks), c)

HandIndices == {0, MaxIndex}

LegalIndex(i) == i < size(player_states[board.player].hand)

Hint == board.hints_remaining > 0 /\ Call([kind |-> "Hint"])

Discard(i) == LegalIndex(i) /\ Call([kind |-> "Discard", index |-> i])

Play(i) == LegalIndex(i) /\ Call([kind |-> "Play", index |-> i])

\* the driver of the specification: legal choices, while the game is not over
HintTurn == ~is_over(GS) /\ Hint

DiscardTurn == ~is_over(GS) /\ \E i \in HandIndices : Discard(i)

PlayTurn == ~is_over(GS) /\ \E i \in HandIndices : Play(i)

Next == HintTurn \/ DiscardTurn \/ PlayTurn

Spec == Init /\ [][Next]_vars

\* choices the legality checker would have refused
HintWithoutToken == board.hints_remaining = 0 /\ Call([kind |-> "Hint"])

DiscardOutOfRange ==
    Call([kind |-> "Discard",
          index |-> size(player_states[board.player].hand)])

PlayOutOfRange ==
    Call([kind |-> "Play", index |-> size(player_states[board.player].hand)])

\* a driver that gates on nothing: it also calls on a finished game and with
\* illegal choices, for MaxTurn turns
MoreCalls == board.turn <= MaxTurn

AnyHint == MoreCalls /\ Hint

AnyDiscard == MoreCalls /\ \E i \in HandIndices : Discard(i)

AnyPlay == MoreCalls /\ \E i \in HandIndices : Play(i)

AnyHintWithoutToken == MoreCalls /\ HintWithoutToken

AnyDiscardOutOfRange == MoreCalls /\ DiscardOutOfRange

AnyPlayOutOfRange == MoreCalls /\ PlayOutOfRange

NextAny ==
    \/ AnyHint
    \/ AnyDiscard
    \/ AnyPlay
    \/ AnyHintWithoutToken
    \/ AnyDiscardOutOfRange
    \/ AnyPlayOutOfRange

SpecAny == Init /\ [][NextAny]_vars

(***************************************************************************)
(* The full table: as many players as the deck has cards, one card each,   *)
(* so that the deal leaves the deck empty and every hand can run out.      *)
(***************************************************************************)
TableConfigs ==
    {[num_players |-> DECK_SIZE, hand_size |-> 1,
      num_hints |-> k, num_lives |-> l] :
        k \in 1..MaxHints, l \in 1..MaxLives}

InitTable ==
    \E o \in TableConfigs, seed \in 0..MaxSeed :
        LET gs == new(o, seed)
        IN  /\ player_states = gs.player_states
            /\ board = gs.board
            /\ opts = o
            /\ panic = NO_PANIC
            /\ choice = NO_CALL
            /\ taken = NO_CARD
            /\ before = Seen(gs)
            /\ deckless_calls = 0

\* the last MaxTurn players of the first round are to move, or a later one
LateCalls == board.turn > board.num_players - MaxTurn

\* the driver of the full table makes legal choices while the game is not
\* over; to keep the games few, a card is played only in the first MaxTurn
\* turns and a hint given only from the last MaxTurn turns of the round on
TableHint == ~is_over(GS) /\ LateCalls /\ Hint

TableDiscard == ~is_over(GS) /\ Discard(0)

TablePlay == ~is_over(GS) /\ MoreCalls /\ Play(0)

NextTable == TableHint \/ TableDiscard \/ TablePlay

SpecTable == InitTable /\ [][NextTable]_vars

\* the driver goes on calling as long as it has a call to make
SpecTableFair == SpecTable /\ WF_vars(NextTable)

(***************************************************************************)
(* Properties.                                                             *)
(***************************************************************************)
Players == get_players(GS)

Called == choice # NO_CALL /\ panic = NO_PANIC

\* C1: every player's hand and info piles have the same size, after new and
\* after every call, whether or not a replacement card was drawn.
HandInfoSameSize ==
    \A p \in Players :
        size(player_states[p].hand) = size(player_states[p].info)

\* C1 witness: a card was taken from a hand when the deck was empty, and the
\* hand shrank.
HandShrankWithoutDraw ==
    /\ Called
    /\ choice.kind \in {"Discard", "Play"}
    /\ before.deck_size = 0
    /\ size(player_states[before.player].hand) = before.hand_size - 1
    /\ HandInfoSameSize

\* C2: while the driver gates on is_over and legality, the hint and life
\* counters stay within 0..total (no wrap-around below zero either).
CountersInRange ==
    /\ 0 <= board.hints_remaining
    /\ board.hints_remaining <= board.hints_total
    /\ 0 <= board.lives_remaining
    /\ board.lives_remaining <= board.lives_total

\* C2 witness: a discard made with all hint tokens present left them capped.
DiscardAtCap ==
    /\ Called
    /\ choice.kind = "Discard"
    /\ before.hints_remaining = board.hints_total
    /\ board.hints_remaining = board.hints_total

\* C3: every call moves to the next player cyclically and counts one turn,
\* and 0 <= player < num_players and (turn - 1) mod num_players = player
\* hold in every state.
TurnAdvances ==
    /\ [](/\ 0 <= board.player
          /\ board.player < board.num_players
          /\ (board.turn - 1) % board.num_players = board.player)
    /\ [][/\ board'.player = (board.player + 1) % board.num_players
          /\ board'.turn = board.turn + 1]_vars

\* C3 witness: the turn came back to player 0 after a full round of several
\* players.
RoundCompleted ==
    /\ Called
    /\ board.num_players >= 2
    /\ board.turn = board.num_players + 1
    /\ board.player = 0

\* C4: once is_over() is true it stays true after any further call.
OverStaysOver == [][is_over(GS) => is_over(GS')]_vars

\* C5: the deckless countdown never goes below 0: it neither wraps around
\* nor fails the subtraction.
DecklessNeverUnderflows ==
    /\ ~wrapped(board.deckless_turns_remaining)
    /\ panic # PANIC_DECKLESS

DealtAll == opts.num_players * opts.hand_size = DECK_SIZE

\* C6 as stated: the countdown ends the game after exactly num_players + 1
\* calls made with an empty deck.
CountdownAfterPlayersPlusOne ==
    (board.deckless_turns_remaining = 0 /\ board.lives_remaining > 0)
        => deckless_calls = board.num_players + 1

\* C6 amended: every call made with an empty deck counts down by one, and
\* the countdown ends the game after exactly num_players such calls when a
\* replacement draw emptied the deck (the drawing turn has counted already),
\* and after num_players + 1 when the deal emptied it.
CountdownAfterDeckEmpty ==
    /\ []((board.deckless_turns_remaining = 0 /\ board.lives_remaining > 0)
            => deckless_calls = IF DealtAll THEN board.num_players + 1
                                ELSE board.num_players)
    /\ [][size(board.deck) = 0 =>
            board'.deckless_turns_remaining
                = board.deckless_turns_remaining - 1]_vars

\* C6 witness: the countdown ended a game whose deck a draw had emptied.
CountdownEndedAfterDraw ==
    /\ Called
    /\ ~DealtAll
    /\ board.deckless_turns_remaining = 0
    /\ board.lives_remaining > 0
    /\ deckless_calls = board.num_players

\* C7: every view of p has an entry for every other player q that gives q's
\* state, and its info is p's info.
ViewShowsEveryOther ==
    \A p \in Players : \A view \in get_view(GS, p) :
        LET seen == deref(GS, view)
        IN  /\ seen.info = player_states[p].info
            /\ \A q \in Players \ {p} :
                  /\ q \in DOMAIN seen.other_player_states
                  /\ seen.other_player_states[q] = player_states[q]

\* other hands player p could hold: the first card replaced
AltHands(hand) ==
    IF Len(hand) = 0 THEN {}
    ELSE {[hand EXCEPT ![1] = c] :
             c \in {Card("blue", 1), Card("red", 5)}} \ {hand}

\* C8: a view of p never exposes p's own hand: no entry of it borrows p's
\* state, and p is given the same views, showing the same, whatever cards p
\* holds.
OwnHandHidden ==
    \A p \in Players :
        LET views == get_view(GS, p)
        IN  /\ \A view \in views :
                  \A k \in DOMAIN view.other_player_states :
                      view.other_player_states[k].ref # p
            /\ \A alt \in AltHands(player_states[p].hand) :
                  LET other == [GS EXCEPT !.player_states[p].hand = alt]
                  IN  /\ get_view(other, p) = views
                      /\ \A view \in views :
                            deref(other, view) = deref(GS, view)

\* C8 witness: a game of three or more players in which cards have been
\* played, and the player to move could hold other cards.
ViewsDuringPlay ==
    /\ Called
    /\ board.num_players >= 3
    /\ choice.kind = "Play"
    /\ AltHands(player_states[board.player].hand) # {}
    /\ \E view \in get_view(GS, board.player) :
          view.other_player_states # << >>

\* C9: the score is the sum over the five colors of the firework's size
\* minus one, and lies in 0..25.
ScoreIsFireworkSum ==
    /\ score(GS) = (size(board.fireworks["blue"]) - 1)
                    + (size(board.fireworks["red"]) - 1)
                    + (size(board.fireworks["yellow"]) - 1)
                    + (size(board.fireworks["white"]) - 1)
                    + (size(board.fireworks["green"]) - 1)
    /\ 0 <= score(GS)
    /\ score(GS) <= 25

\* C9 witness: a legal play raised the score.
ScoreRaised ==
    /\ Called
    /\ choice.kind = "Play"
    /\ score(GS) = before.score + 1

\* C10: a Play is legal exactly when the card's value is the top of its
\* color's firework plus 1; a legal play appends the card to that firework,
\* keeps lives and discard pile, and adds a hint token (capped) only for a 5;
\* an illegal play discards the card, costs exactly one life and keeps the
\* fireworks and the hint tokens.
PlayEffect ==
    [][choice'.kind = "Play" =>
        LET card  == player_states[board.player].hand[choice'.index + 1]
            under == top(board.fireworks[card.color])
        IN  IF card.value = under.value + 1
            THEN /\ board'.fireworks =
                       [board.fireworks EXCEPT ![card.color] = Append(@, card)]
                 /\ board'.lives_remaining = board.lives_remaining
                 /\ board'.discard = board.discard
                 /\ board'.hints_remaining =
                       IF /\ card.value = 5
                          /\ board.hints_remaining < board.hints_total
                       THEN board.hints_remaining + 1
                       ELSE board.hints_remaining
            ELSE /\ board'.discard = Append(board.discard, card)
                 /\ board'.lives_remaining = board.lives_remaining - 1
                 /\ board'.fireworks = board.fireworks
                 /\ board'.hints_remaining = board.hints_remaining]_vars

\* C10 witness: a 5 was played legally and gave back a spent hint token.
FireworkMadeRefundsHint ==
    /\ Called
    /\ choice.kind = "Play"
    /\ taken.value = FINAL_VALUE
    /\ top(board.fireworks[taken.color]) = taken
    /\ size(board.fireworks[taken.color]) = 6
    /\ before.hints_remaining < board.hints_total
    /\ board.hints_remaining = before.hints_remaining + 1

\* C11: Discard(index) puts the card removed from the mover's hand on top of
\* the discard pile, keeps every firework and the lives, and adds one hint
\* token when below hints_total, none when at hints_total.
DiscardEffect ==
    [][(choice'.kind = "Discard" /\ panic' # PANIC_INDEX) =>
        LET card == player_states[board.player].hand[choice'.index + 1]
        IN  /\ board'.discard = Append(board.discard, card)
            /\ board'.discard[Len(board'.discard)] = card
            /\ board'.fireworks = board.fireworks
            /\ board'.lives_remaining = board.lives_remaining
            /\ board'.hints_remaining =
                  IF board.hints_remaining < board.hints_total
                  THEN board.hints_remaining + 1
                  ELSE board.hints_remaining]_vars

\* C11 witness: a discard made with a token missing gave the token back and
\* left the discarded card on top of the discard pile.
DiscardRefundedHint ==
    /\ Called
    /\ choice.kind = "Discard"
    /\ before.hints_remaining < board.hints_total
    /\ board.hints_remaining = before.hints_remaining + 1
    /\ size(board.discard) > 0
    /\ top(board.discard) = taken

\* C12: a Hint made with a token left spends exactly one token and keeps
\* every player's hand and info, the deck, the discard pile, the fireworks
\* and the lives.
HintEffect ==
    [][(choice'.kind = "Hint" /\ board.hints_remaining > 0) =>
        /\ board'.hints_remaining = board.hints_remaining - 1
        /\ player_states' = player_states
        /\ board'.deck = board.deck
        /\ board'.discard = board.discard
        /\ board'.fireworks = board.fireworks
        /\ board'.lives_remaining = board.lives_remaining]_vars

\* C12 witness: a hint was given and cost a token.
HintSpentToken ==
    /\ Called
    /\ choice.kind = "Hint"
    /\ before.hints_remaining > 0
    /\ board.hints_remaining = before.hints_remaining - 1

\* C13: a Hint made with no token left is rejected (the call fails) and
\* leaves the whole game state as it was: the token count does not go
\* below zero, turn and player do not move.
HintRejected ==
    [][(choice'.kind = "Hint" /\ board.hints_remaining = 0) =>
        /\ panic' = PANIC_HINT
        /\ board' = board
        /\ player_states' = player_states]_vars

\* C13 witness: a hint was asked for with no token left and the call failed.
HintRefused ==
    /\ choice.kind = "Hint"
    /\ panic = PANIC_HINT
    /\ board.hints_remaining = 0
    /\ before.hints_remaining = 0


\* what C14 says of the state gs that new returns for the options o
NewPostcondition(gs, o) ==
    /\ Len(gs.board.deck) = 50 - o.num_players * o.hand_size
    /\ DOMAIN gs.player_states = 0..(o.num_players - 1)
    /\ \A p \in DOMAIN gs.player_states :
          Len(gs.player_states[p].hand) = o.hand_size
    /\ DOMAIN gs.board.fireworks = {"blue", "red", "yellow", "white", "green"}
    /\ \A color \in DOMAIN gs.board.fireworks :
          gs.board.fireworks[color] = <<[color |-> color, value |-> 0]>>
    /\ gs.board.discard = << >>
    /\ gs.board.hints_remaining = o.num_hints
    /\ gs.board.hints_total = o.num_hints
    /\ gs.board.lives_remaining = o.num_lives
    /\ gs.board.lives_total = o.num_lives
    /\ gs.board.turn = 1
    /\ gs.board.player = 0
    /\ gs.board.deckless_turns_remaining = o.num_players + 1

\* every configuration of up to MaxPlayers players the deck can serve, hands
\* of any size, zero players or empty hands included
NewConfigs ==
    UNION {
        {[num_players |-> n, hand_size |-> h, num_hints |-> k, num_lives |-> l] :
            h \in {x \in 0..50 : n * x <= 50}} :
        n \in 0..MaxPlayers, k \in 0..MaxHints, l \in 0..MaxLives}

NewEverywhere ==
    \A o \in NewConfigs : \A seed \in 0..MaxSeed :
        NewPostcondition(new(o, seed), o)

\* C14: for every configuration with num_players * hand_size <= 50, new
\* returns a deck of 50 - num_players * hand_size cards, hands of hand_size
\* cards, fireworks holding only their sentinel, an empty discard pile, full
\* hints and lives, turn 1, player 0 and a countdown of num_players + 1:
\* for the state a game starts in, and for new on every such configuration.
NewPostconditions ==
    choice = NO_CALL => (NewPostcondition(GS, opts) /\ NewEverywhere)

\* C14 witness: a game of several players as new returned it, with cards
\* left in the deck.
FreshGame ==
    /\ choice = NO_CALL
    /\ board.num_players >= 2
    /\ size(board.deck) > 0
    /\ board.turn = 1


\* C15: no call changes the hand or info of a player other than the player
\* to move, whatever the choice, the index and the deck.
OnlyMoverChanges ==
    [][/\ DOMAIN player_states' = DOMAIN player_states
       /\ \A q \in Players \ {board.player} :
             player_states'[q] = player_states[q]]_vars

\* C15 witness: in a game of several players a card was taken from the
\* mover's hand and a replacement drawn.
MoverTookAndDrew ==
    /\ Called
    /\ board.num_players >= 2
    /\ choice.kind \in {"Discard", "Play"}
    /\ taken # NO_CARD
    /\ before.deck_size > 0
    /\ size(board.deck) = before.deck_size - 1

\* C16: Discard(index) and Play(index) remove the card at index from the
\* mover's hand, the later cards moving down one place in order; with cards
\* in the deck its top card is appended to the hand (same hand size, deck
\* one smaller), with an empty deck the hand is one smaller.
TakeShiftsAndDraws ==
    [][(choice'.kind \in {"Discard", "Play"} /\ panic' # PANIC_INDEX) =>
        LET p    == board.player
            hand == player_states[p].hand
            i    == choice'.index
            rest == [j \in 1..(Len(hand) - 1) |->
                        IF j <= i THEN hand[j] ELSE hand[j + 1]]
        IN  IF Len(board.deck) > 0
            THEN /\ player_states'[p].hand
                       = rest \o <<board.deck[Len(board.deck)]>>
                 /\ Len(player_states'[p].hand) = Len(hand)
                 /\ board'.deck
                       = [j \in 1..(Len(board.deck) - 1) |-> board.deck[j]]
                 /\ Len(board'.deck) = Len(board.deck) - 1
            ELSE /\ player_states'[p].hand = rest
                 /\ Len(player_states'[p].hand) = Len(hand) - 1
                 /\ board'.deck = << >>]_vars

\* C16 witness: a card that was not the last of its hand was played, the
\* cards behind it moved down and the deck's top card joined the hand.
PlayedFromTheMiddle ==
    /\ Called
    /\ choice.kind = "Play"
    /\ choice.index + 1 < before.hand_size
    /\ before.deck_size > 0
    /\ size(player_states[before.player].hand) = before.hand_size
    /\ size(board.deck) = before.deck_size - 1


RECURSIVE HandsUpTo(_)
\* the hands of players 0..(n - 1), one after the other
HandsUpTo(n) ==
    IF n = 0 THEN << >> ELSE HandsUpTo(n - 1) \o player_states[n - 1].hand

\* every card of the game: deck, hands, discard pile and fireworks
CardsInGame ==
    board.deck \o HandsUpTo(board.num_players) \o board.discard
        \o board.fireworks["blue"] \o board.fireworks["red"]
        \o board.fireworks["yellow"] \o board.fireworks["white"]
        \o board.fireworks["green"]

CountIn(cards, card) ==
    Cardinality({j \in 1..Len(cards) : cards[j] = card})

\* cards holds the 50 cards a deck is built of and the 5 sentinels
FullDeckAndSentinels(cards) ==
    /\ Len(cards) = 50 + 5
    /\ \A color \in {"blue", "red", "yellow", "white", "green"} :
          /\ CountIn(cards, [color |-> color, value |-> 0]) = 1
          /\ CountIn(cards, [color |-> color, value |-> 1]) = 3
          /\ CountIn(cards, [color |-> color, value |-> 2]) = 2
          /\ CountIn(cards, [color |-> color, value |-> 3]) = 2
          /\ CountIn(cards, [color |-> color, value |-> 4]) = 2
          /\ CountIn(cards, [color |-> color, value |-> 5]) = 1

\* C18: in every state the cards of deck, hands, discard pile and fireworks,
\* the 5 value-0 sentinels apart, are the 50 cards a deck is built of:
\* per color three 1s, two 2s, two 3s, two 4s and one 5.
CardsConserved == FullDeckAndSentinels(CardsInGame)

\* C18 witness: cards lie on the discard pile and on a firework, and the
\* last call drew a replacement from the deck.
CardsInEveryPlace ==
    /\ Called
    /\ size(board.discard) >= 1
    /\ score(GS) >= 1
    /\ before.deck_size > 0
    /\ size(board.deck) = before.deck_size - 1

\* C19: in every state each color's firework is non-empty, holds cards of
\* its color only, with values 0, 1, ..., k from the bottom up and k <= 5;
\* across a call no firework loses or changes a card and the score does not
\* decrease.
FireworksGrowInOrder ==
    /\ [](\A color \in {"blue", "red", "yellow", "white", "green"} :
            LET firework == board.fireworks[color]
            IN  /\ Len(firework) >= 1
                /\ Len(firework) <= 6
                /\ \A j \in 1..Len(firework) :
                      firework[j] = [color |-> color, value |-> j - 1])
    /\ [][/\ \A color \in {"blue", "red", "yellow", "white", "green"} :
                /\ Len(board.fireworks[color]) <= Len(board'.fireworks[color])
                /\ \A j \in 1..Len(board.fireworks[color]) :
                      board'.fireworks[color][j] = board.fireworks[color][j]
          /\ score(GS') >= score(GS)]_vars

\* C19 witness: a firework holds its sentinel and at least two cards played
\* on it.
FireworkOfThree ==
    /\ Called
    /\ \E color \in {"blue", "red", "yellow", "white", "green"} :
          size(board.fireworks[color]) >= 3


\* C17: under a driver that calls only while the game is not over and only
\* with legal choices, every game comes to an end: is_over() becomes true.
GameEnds == <>is_over(GS)

\* C20: in every state reached by legal choices in which the game is not
\* over, the player to move has a legal choice: a card in hand (Discard or
\* Play of index 0) or a hint token.
MoverHasLegalChoice ==
    ~is_over(GS) =>
        \/ size(player_states[board.player].hand) > 0
        \/ board.hints_remaining > 0


====
